---- MODULE Spec2Model ----
(***************************************************************************)
(* Instagram webhook -> LLM -> reply relay (ai-agent-chat-server).         *)
(*                                                                         *)
(* The repository holds two variants of the server: src/index.js and       *)
(* src/unnamed/part_000.  Both keep the same in-memory store and the same   *)
(* helper functions; they differ in the POST /webhook handler (signature    *)
(* check, sequential `for ... await` loop against `forEach(async ...)`) and *)
(* in sendMessageToOpenAI (part_000 catches a failed call and returns an    *)
(* apology text, index.js lets it reject).                                  *)
(*                                                                         *)
(* JavaScript runs every callback to completion between two `await`s, so    *)
(* one action of the model is one such run-to-completion step.              *)
(***************************************************************************)
EXTENDS Integers, Sequences, FiniteSets, TLC

VARIABLES
    variant,         \* which server file is running: "index" or "part_000"
    conversations,   \* let conversations = []
    configuration,   \* let configuration = {...}
    posts,           \* the POST /webhook requests: body, header, handler position, response
    runs,            \* per (request, entry): the pipeline run of that entry
    clock,           \* the wall clock read by new Date()
    lastResponse,    \* the response the latest step sent on an admin route or on
                     \* GET /webhook; NoResponse when the step sent none
    testing,         \* POST /api/test/:service: the services whose probe is awaited,
                     \* in the order of their requests
    horizon,         \* the last instant of the behaviour: the clock does not pass it
    process          \* the Node process: "running", or "exited" (exit code 1); the
                     \* other variables of an exited process keep the values they had
                     \* when it ended, and no handler, callback or timer reads them

vars == <<variant, conversations, configuration, posts, runs, clock, lastResponse,
          testing, horizon, process>>

----------------------------------------------------------------------------
(* Bounds of the model *)

\* Spec: every interleaving of MaxPosts requests carrying MaxEvents entries in all
MaxPosts == 2
MaxEvents == 2
\* SpecWide: the same with room for a second entry beside a two-entry payload
WidePosts == 2
WideEvents == 3
\* clock ticks per behaviour
MaxClock == 1
\* SpecReplies: one request of ReplyEvents entries, LLM replies of up to MaxReplyLen tokens
\* SpecConfig: ConfigPosts requests of ConfigEvents entries in all
ConfigPosts == 1
ConfigEvents == 1
\* SpecListing, SpecDesk: DeskPosts requests of DeskEvents entries in all, DeskClock
\* clock ticks
DeskPosts == 1
DeskEvents == 2
DeskClock == 1
\* SpecDesk: at most MaxTests connectivity tests await their probe at a time
MaxTests == 1
\* SpecStamps: StampPosts requests of StampEvents entries in all, StampClock clock
\* ticks (two ticks can fall into one call of addMessageToConversation)
StampPosts == 1
StampEvents == 2
StampClock == 2
\* SpecRuns: RunPosts requests of RunEvents entries in all
RunPosts == 2
RunEvents == 2
ReplyPosts == 1
ReplyEvents == 2
MaxReplyLen == 2

Variants == {"index", "part_000"}
Users == {"u1", "u2"}

\* The requests and the entries per request the behaviour has room for
PostIds == DOMAIN posts
EntryIds == DOMAIN runs[1]

Max(a, b) == IF a >= b THEN a ELSE b

\* handlers, callbacks and timers run in a process that has not ended
Running == process = "running"

----------------------------------------------------------------------------
(* Values *)

\* A text is a sequence of tokens; the booking placeholder is one token.
BOOKING_URL == "{BOOKING_URL}"
EmptyText == <<>>

\* JavaScript `undefined` in a string-valued field
NoSender == "<sender undefined>"
NoId == "<sender.id undefined>"

\* One element of body.entry as far as the handler reads it: messaging[0].sender,
\* .sender.id, .message and .message.text.  message is "absent" (no messaging[0] or
\* no message), "notext" (message without text) or "text".
ValidEntry(u) == [sender |-> u, message |-> "text", text |-> <<"hi">>]
Entries ==
    {ValidEntry(u) : u \in Users}
    \cup {[sender |-> "u1", message |-> "absent", text |-> EmptyText],
          [sender |-> "u1", message |-> "notext", text |-> EmptyText],
          [sender |-> NoSender, message |-> "text", text |-> <<"hi">>],
          [sender |-> NoId, message |-> "text", text |-> <<"hi">>]}

RECURSIVE SeqsUpTo(_, _)
SeqsUpTo(S, n) ==
    IF n = 0 THEN {<<>>}
    ELSE LET shorter == SeqsUpTo(S, n - 1)
         IN  shorter \cup {Append(q, x) : q \in {r \in shorter : Len(r) = n - 1}, x \in S}

\* The bodies with at most n entries, for every n the model can receive
Bodies ==
    [n \in 0..Max(MaxEvents, WideEvents) |->
        [object : {"instagram"}, entry : SeqsUpTo(Entries, n)]
        \cup (IF n = 0 THEN {} ELSE [object : {"page"}, entry : {<<ValidEntry("u1")>>}])]

----------------------------------------------------------------------------
(* configuration: src/index.js 21-57, src/unnamed/part_000 27-61 *)

InitialConfiguration ==
    [instagram |-> [pageId |-> "page", accessToken |-> "token0", verifyToken |-> "myverifytoken"],
     gpt |-> [provider |-> "openai", apiKey |-> "key0", endpoint |-> "endpoint0",
              model |-> "gpt-3.5-turbo", prompt |-> "prompt0"],
     booking |-> [calendlyUrl |-> "https://cal.example/me", provider |-> "calendly"]]

\* JavaScript `null` as the value of a section: POST /api/config takes it as it takes
\* any value, and reading a field of it (configuration.instagram.verifyToken) throws
\* a TypeError
NullSection == [isNull |-> TRUE]
IsNull(section) == "isNull" \in DOMAIN section

----------------------------------------------------------------------------
(* verifyWebhookSignature *)

WEBHOOK_SECRET == "default_secret"

\* A header value is a byte string: its byte length and its content.  The hex digest
\* of an HMAC-SHA256 has 64 characters, whatever the key and the payload; the digest
\* is kept symbolic as the pair (key, payload) it was computed from.
HexDigestLen == 64
PrefixLen == 7

HmacHex(key, payload) == <<"hmac-sha256", key, payload>>

SignatureFor(key, payload) ==
    [present |-> TRUE, len |-> PrefixLen + HexDigestLen,
     bytes |-> <<"sha256=">> \o HmacHex(key, payload)]

AbsentHeader == [present |-> FALSE, len |-> 0, bytes |-> <<>>]
PrefixOnlyHeader == [present |-> TRUE, len |-> PrefixLen, bytes |-> <<"sha256=">>]

\* The request body as bytes: the JSON value express.json() parses from it, and whether
\* the bytes are exactly what JSON.stringify gives for that value (no extra white
\* space, same key order and escapes).
RawBody(body, canonical) == [json |-> body, canonical |-> canonical]

\* JSON.stringify(req.body)
JSON_stringify(body) == RawBody(body, TRUE)

\* The requests a sender may make with `body`: the bytes sent and the
\* x-hub-signature-256 header attached to them
Requests(body) ==
    [canonical : {TRUE},
     header : {AbsentHeader, PrefixOnlyHeader,
               SignatureFor(WEBHOOK_SECRET, RawBody(body, TRUE)),
               SignatureFor("other_secret", RawBody(body, TRUE))}]
    \cup [canonical : {FALSE},
          header : {SignatureFor(WEBHOOK_SECRET, RawBody(body, FALSE))}]

\* Buffer.from(undefined) throws a TypeError; crypto.timingSafeEqual throws a
\* RangeError when the two buffers differ in byte length; otherwise it compares.
verifyWebhookSignature(payload, signature) ==
    LET expected == SignatureFor(WEBHOOK_SECRET, payload)
    IN  IF ~signature.present THEN [threw |-> TRUE, value |-> FALSE]
        ELSE IF signature.len # expected.len THEN [threw |-> TRUE, value |-> FALSE]
        ELSE [threw |-> FALSE, value |-> (signature.bytes = expected.bytes)]

----------------------------------------------------------------------------
(* Conversation Store *)

\* A variant of FindConversation whose predicate holds of every conversation (an
\* assignment in place of the comparison): the first conversation, 0 if there is none
FindFirstConversation(convs, userId) ==
    IF convs = <<>> THEN 0 ELSE 1

\* conversations.find((c) => c.userId === userId): index of the first match, 0 if none
FindConversation(convs, userId) ==
    LET hits == {k \in 1..Len(convs) : convs[k].userId = userId}
    IN  IF hits = {} THEN 0 ELSE CHOOSE k \in hits : \A h \in hits : k <= h

\* `user_${userId.slice(-6)}`; the model's user ids are shorter than six characters
DefaultUsername(userId) == <<"user_", userId>>

NewMessage(msgId, message, sender, now) ==
    [id |-> msgId, text |-> message, sender |-> sender, timestamp |-> now]

\* The values that the calls of new Date() in one call of addMessageToConversation
\* can give between the instants `from` and `to`: createdAt (and the lastActivity of
\* the new conversation, overwritten below), then the message's timestamp, then
\* lastActivity.  The clock may tick between any two of the reads.
Reads(from, to) ==
    {d \in [created : from..to, stamped : from..to, active : from..to] :
        d.created <= d.stamped /\ d.stamped <= d.active}

\* The reads of n calls, one after the other
RECURSIVE ReadSeqs(_, _, _)
ReadSeqs(from, to, n) ==
    IF n = 0 THEN {<<>>}
    ELSE UNION {{<<d>> \o rest : rest \in ReadSeqs(d.active, to, n - 1)} :
                d \in Reads(from, to)}

\* One call's reads for whichever of n entries makes the call
SameReads(d, n) == [k \in 1..n |-> d]

\* The clock after a handler: the latest instant it has read
RECURSIVE LatestActivity(_)
LatestActivity(convs) ==
    IF convs = <<>> THEN 0
    ELSE Max(Head(convs).lastActivity, LatestActivity(Tail(convs)))
ClockAfter(convs, now) == Max(now, LatestActivity(convs))

\* A variant of addMessageToConversation whose lookup never matches (the find
\* compares c.id with userId): every append opens a new conversation.
addMessageFindById(convs, userId, message, sender, msgId, dates) ==
    IF userId \in {NoId, NoSender}
    THEN [threw |-> TRUE, conversations |-> convs, index |-> 0]
    ELSE [threw |-> FALSE, index |-> Len(convs) + 1,
          conversations |->
              Append(convs,
                     [id |-> Len(convs) + 1, userId |-> userId,
                      username |-> DefaultUsername(userId),
                      messages |-> <<NewMessage(msgId, message, sender, dates.stamped)>>,
                      status |-> "active", createdAt |-> dates.created,
                      lastActivity |-> dates.active])]

\* A variant of addMessageToConversation that puts the new message in front
\* (messages.unshift instead of messages.push)
addMessageInFront(convs, userId, message, sender, msgId, dates) ==
    LET k == FindConversation(convs, userId)
    IN  IF k = 0 /\ userId \in {NoId, NoSender}
        THEN [threw |-> TRUE, conversations |-> convs, index |-> 0]
        ELSE LET withConv ==
                     IF k # 0 THEN convs
                     ELSE Append(convs,
                                 [id |-> Len(convs) + 1, userId |-> userId,
                                  username |-> DefaultUsername(userId),
                                  messages |-> <<>>, status |-> "active",
                                  createdAt |-> dates.created, lastActivity |-> dates.created])
                 j == IF k # 0 THEN k ELSE Len(withConv)
             IN  [threw |-> FALSE, index |-> j,
                  conversations |->
                      [withConv EXCEPT
                          ![j].messages = <<NewMessage(msgId, message, sender, dates.stamped)>> \o @,
                          ![j].lastActivity = dates.active]]

\* addMessageToConversation(userId, username, message, sender), with the values that
\* crypto.randomUUID() and new Date() hand to this call passed in (msgId, dates); the
\* call reads the clock when it creates the conversation (dates.created), when it
\* builds the message (dates.stamped) and when it sets lastActivity (dates.active).
\* The conversation's id is its creation rank, which is unique because nothing is removed.
\* An undefined userId finds no conversation and then throws at userId.slice(-6),
\* before anything is pushed.  username is null at both call sites.  The result is
\* the store afterwards and the place in it of the conversation returned.
addMessageToConversation(convs, userId, message, sender, msgId, dates) ==
    LET k == FindConversation(convs, userId)
    IN  IF k = 0 /\ userId \in {NoId, NoSender}
        THEN [threw |-> TRUE, conversations |-> convs, index |-> 0]
        ELSE LET withConv ==
                     IF k # 0 THEN convs
                     ELSE Append(convs,
                                 [id |-> Len(convs) + 1, userId |-> userId,
                                  username |-> DefaultUsername(userId),
                                  messages |-> <<>>, status |-> "active",
                                  createdAt |-> dates.created, lastActivity |-> dates.created])
                 j == IF k # 0 THEN k ELSE Len(withConv)
             IN  [threw |-> FALSE, index |-> j,
                  conversations |->
                      [withConv EXCEPT
                          ![j].messages = Append(@, NewMessage(msgId, message, sender, dates.stamped)),
                          ![j].lastActivity = dates.active]]

----------------------------------------------------------------------------
(* Reply pipeline: the per-entry run *)

\* if (messageText): undefined and the empty string are falsy
Truthy(e) == e.message = "text" /\ e.text # EmptyText

\* String.prototype.replace(pattern, replacement) with a string pattern replaces the
\* first occurrence only
RECURSIVE ReplaceFirst(_, _, _)
ReplaceFirst(text, token, by) ==
    IF text = <<>> THEN <<>>
    ELSE IF Head(text) = token THEN <<by>> \o Tail(text)
    ELSE <<Head(text)>> \o ReplaceFirst(Tail(text), token, by)

Includes(text, token) == \E k \in 1..Len(text) : text[k] = token

\* index.js: llmResponse.replace("{BOOKING_URL}", configuration.booking.calendlyUrl)
\* part_000: the same behind llmResponse.includes("{BOOKING_URL}")
Substitute(v, llmResponse, cfg) ==
    IF v = "part_000"
    THEN IF Includes(llmResponse, BOOKING_URL)
         THEN ReplaceFirst(llmResponse, BOOKING_URL, cfg.booking.calendlyUrl)
         ELSE llmResponse
    ELSE ReplaceFirst(llmResponse, BOOKING_URL, cfg.booking.calendlyUrl)

\* the messages array of sendMessageToOpenAI
ChatMessages(cfg, message, conversationHistory) ==
    <<[role |-> "system", content |-> <<cfg.gpt.prompt>>]>>
    \o [k \in 1..Len(conversationHistory) |->
            [role |-> IF conversationHistory[k].sender = "user" THEN "user" ELSE "assistant",
             content |-> conversationHistory[k].text]]
    \o <<[role |-> "user", content |-> message]>>

ApologyText == <<"Sorry, I'm having trouble responding right now.">>

\* A run: where it stands, what it took from its event, what it sent to the LLM and
\* got back, what it handed to the Messaging Client and with which token; and
\* startedWith, the configuration as it was when the run started (kept for the
\* properties only, the code reads `configuration` anew at every use).
NoRun ==
    [state |-> "none", senderId |-> "", messageText |-> EmptyText,
     llmRequest |-> [endpoint |-> "", model |-> "", apiKey |-> "", messages |-> <<>>],
     llmResponse |-> EmptyText, finalResponse |-> EmptyText,
     llmOutcome |-> "", sends |-> 0, accessToken |-> "", startedWith |-> <<>>]

MsgId(p, i, sender) == <<p, i, sender>>

\* A variant of HistoryBefore without the slice: the history handed to the LLM Client
\* holds the message just appended
HistoryWithCurrent(conversation) == conversation.messages

\* conversation.messages.slice(0, -1): a copy of the messages without the last one
HistoryBefore(conversation) ==
    SubSeq(conversation.messages, 1, Len(conversation.messages) - 1)

\* The body of the per-entry callback up to its first await
\* (index.js 187-208, part_000 197-214): the outcome is "skip" (no message or no
\* text), "throw" (a TypeError) or "await" (user message recorded, LLM call sent).
EntrySync(convs, cfg, dates, p, i, e) ==
    IF e.message = "absent"
    THEN [kind |-> "skip", conversations |-> convs, run |-> NoRun]
    ELSE IF e.sender = NoSender
    THEN [kind |-> "throw", conversations |-> convs, run |-> NoRun]
    ELSE IF ~Truthy(e)
    THEN [kind |-> "skip", conversations |-> convs, run |-> NoRun]
    ELSE LET added == addMessageToConversation(convs, e.sender, e.text, "user",
                                               MsgId(p, i, "user"), dates)
         IN  IF added.threw
             THEN [kind |-> "throw", conversations |-> convs, run |-> NoRun]
             ELSE LET conversation == added.conversations[added.index]
                      history == HistoryBefore(conversation)
                  IN  [kind |-> "await", conversations |-> added.conversations,
                       run |-> [NoRun EXCEPT
                                  !.state = "awaitLLM",
                                  !.senderId = e.sender,
                                  !.messageText = e.text,
                                  !.startedWith = cfg,
                                  !.llmRequest =
                                      [endpoint |-> cfg.gpt.endpoint, model |-> cfg.gpt.model,
                                       apiKey |-> cfg.gpt.apiKey,
                                       messages |-> ChatMessages(cfg, e.text, history)]]]

----------------------------------------------------------------------------
(* POST /webhook: the synchronous part of the two handlers *)

\* part_000 196-237: body.entry?.forEach(async (entry) => {...}).  forEach calls the
\* async callback for every entry in turn; each call runs to its first await and
\* returns a promise nobody awaits or catches, so a throw in one callback is an
\* unhandled rejection ("rejected") and the next entry is still visited.
RECURSIVE ForEachEntry(_, _, _, _, _, _, _)
ForEachEntry(convs, runsP, cfg, reads, p, entries, i) ==
    IF i > Len(entries) THEN [conversations |-> convs, runs |-> runsP]
    ELSE LET r == EntrySync(convs, cfg, reads[i], p, i, entries[i])
             st == IF r.kind = "skip" THEN "skipped"
                   ELSE IF r.kind = "throw" THEN "rejected"
                   ELSE "awaitLLM"
         IN  ForEachEntry(r.conversations,
                          [runsP EXCEPT ![i] = [r.run EXCEPT !.state = st]],
                          cfg, reads, p, entries, i + 1)

\* index.js 186-232: for (const entry of body.entry || []) with the await inside the
\* loop.  The loop runs from entry i until an entry awaits its LLM call ("await", at
\* pos), an entry throws into the handler's try/catch ("throw") or the entries are
\* used up ("end").
RECURSIVE ForOfEntries(_, _, _, _, _, _, _)
ForOfEntries(convs, runsP, cfg, reads, p, entries, i) ==
    IF i > Len(entries)
    THEN [conversations |-> convs, runs |-> runsP, outcome |-> "end", pos |-> 0]
    ELSE LET r == EntrySync(convs, cfg, reads[i], p, i, entries[i])
         IN  IF r.kind = "skip"
             THEN ForOfEntries(convs, [runsP EXCEPT ![i].state = "skipped"],
                               cfg, reads, p, entries, i + 1)
             ELSE IF r.kind = "throw"
             THEN [conversations |-> convs, runs |-> [runsP EXCEPT ![i].state = "threw"],
                   outcome |-> "throw", pos |-> i]
             ELSE [conversations |-> r.conversations, runs |-> [runsP EXCEPT ![i] = r.run],
                   outcome |-> "await", pos |-> i]

\* some callback of the forEach has rejected
Rejects(runsP) == \E i \in DOMAIN runsP : runsP[i].state = "rejected"

\* part_000 registers no handler for unhandled rejections (no
\* process.on("unhandledRejection"), and it does not import instrument.js), so the
\* runtime decides what follows a rejected callback, once the handler's synchronous
\* part and the microtasks behind it are through.  Node 15 and later, by default
\* (--unhandled-rejections=throw, and with strict), raise it as an uncaught exception:
\* the process ends with exit code 1, the runs it had started are never scheduled nor
\* delivered, later requests find no server.  With warn, warn-with-error-code or
\* none, and before Node 15, the process prints a warning and goes on.
AfterUnhandledRejection(runsP) ==
    IF Rejects(runsP) THEN {"exited", "running"} ELSE {"running"}

\* A response: the route that sent it, its status and what was sent as its body
NoResponse == [route |-> "", status |-> 0, sent |-> <<>>]

NoPost ==
    [phase |-> "absent", status |-> 0, verified |-> FALSE, pos |-> 0,
     body |-> [object |-> "", entry |-> <<>>], canonical |-> TRUE,
     header |-> AbsentHeader]

Responded(post, status) == [post EXCEPT !.phase = "responded", !.status = status, !.pos = 0]

\* index.js: where the handler stands after a stretch of its loop
AfterLoop(post, r) ==
    IF r.outcome = "await" THEN [post EXCEPT !.phase = "pending", !.pos = r.pos]
    ELSE IF r.outcome = "throw" THEN Responded(post, 500)
    ELSE Responded(post, 200)

RECURSIVE EntriesReceived(_, _)
EntriesReceived(ps, p) ==
    IF p = 0 THEN 0 ELSE Len(ps[p].body.entry) + EntriesReceived(ps, p - 1)

\* The request that arrives next, if the model has one left
Arriving ==
    {p \in PostIds : posts[p].phase = "absent" /\ \A q \in 1..(p - 1) : posts[q].phase # "absent"}

\* The number of entries the model can still receive
Room == Len(runs[1]) - EntriesReceived(posts, Len(posts))

MayArrive(p, body) == p \in Arriving /\ Len(body.entry) <= Room

----------------------------------------------------------------------------
(* Initial state *)

InitFor(nPosts, nEvents, nTicks) ==
    /\ variant \in Variants
    /\ conversations = <<>>
    /\ configuration = InitialConfiguration
    /\ posts = [p \in 1..nPosts |-> NoPost]
    /\ runs = [p \in 1..nPosts |-> [i \in 1..nEvents |-> NoRun]]
    /\ clock = 0
    /\ lastResponse = NoResponse
    /\ testing = <<>>
    /\ horizon = nTicks
    /\ process = "running"

\* In Spec, SpecWide, SpecReplies, SpecRuns and SpecConfig the clock stands still
Init == InitFor(MaxPosts, MaxEvents, 0)
InitWide == InitFor(WidePosts, WideEvents, 0)
InitAdmin == InitFor(MaxPosts, MaxEvents, MaxClock)

----------------------------------------------------------------------------
(* Actions *)

\* part_000 184-244: a POST /webhook arrives and its handler runs to its response;
\* the response is sent before the runtime looks at the rejected callbacks
PostWebhookSigned(p, body, canonical, header) ==
    /\ Running
    /\ variant = "part_000"
    /\ MayArrive(p, body)
    /\ LET arrived == [NoPost EXCEPT !.body = body, !.canonical = canonical,
                                     !.header = header]
           v == verifyWebhookSignature(JSON_stringify(body), header)
       IN  IF v.threw
           THEN /\ posts' = [posts EXCEPT ![p] = Responded(arrived, 500)]
                /\ UNCHANGED <<conversations, runs, clock, process>>
           ELSE IF ~v.value
           THEN /\ posts' = [posts EXCEPT ![p] = Responded(arrived, 403)]
                /\ UNCHANGED <<conversations, runs, clock, process>>
           ELSE \E reads \in ReadSeqs(clock, horizon, Len(body.entry)) :
                LET r == IF body.object = "instagram"
                         THEN ForEachEntry(conversations, runs[p], configuration, reads,
                                           p, body.entry, 1)
                         ELSE [conversations |-> conversations, runs |-> runs[p]]
                IN  /\ posts' = [posts EXCEPT
                                   ![p] = Responded([arrived EXCEPT !.verified = TRUE], 200)]
                    /\ conversations' = r.conversations
                    /\ runs' = [runs EXCEPT ![p] = r.runs]
                    /\ clock' = ClockAfter(r.conversations, clock)
                    /\ process' \in AfterUnhandledRejection(r.runs)
    /\ lastResponse' = NoResponse
    /\ UNCHANGED <<variant, horizon, testing, configuration>>

\* index.js 181-240: a POST /webhook arrives and its handler runs to its first await
\* or to its response; the x-hub-signature-256 header is never read
PostWebhookPlain(p, body, canonical, header) ==
    /\ Running
    /\ variant = "index"
    /\ MayArrive(p, body)
    /\ \E d \in Reads(clock, horizon) :
       LET arrived == [NoPost EXCEPT !.body = body, !.canonical = canonical,
                                     !.header = header]
           r == IF body.object = "instagram"
                THEN ForOfEntries(conversations, runs[p], configuration,
                                  SameReads(d, Len(body.entry)), p, body.entry, 1)
                ELSE [conversations |-> conversations, runs |-> runs[p],
                      outcome |-> "end", pos |-> 0]
       IN  /\ posts' = [posts EXCEPT ![p] = AfterLoop(arrived, r)]
           /\ conversations' = r.conversations
           /\ runs' = [runs EXCEPT ![p] = r.runs]
           /\ clock' = ClockAfter(r.conversations, clock)
    /\ lastResponse' = NoResponse
    /\ UNCHANGED <<variant, horizon, process, testing, configuration>>

\* String.prototype.trim(): white-space tokens at both ends are dropped
RECURSIVE TrimStart(_)
TrimStart(text) ==
    IF text # <<>> /\ Head(text) = " " THEN TrimStart(Tail(text)) ELSE text

RECURSIVE TrimEnd(_)
TrimEnd(text) ==
    IF text # <<>> /\ text[Len(text)] = " "
    THEN TrimEnd(SubSeq(text, 1, Len(text) - 1)) ELSE text

Trim(text) == TrimEnd(TrimStart(text))

\* the run after its LLM call has given llmResponse: substitution, then setTimeout
Scheduled(run, outcome, llmResponse) ==
    [run EXCEPT !.state = "delayed", !.llmOutcome = outcome, !.llmResponse = llmResponse,
                !.finalResponse = Substitute(variant, llmResponse, configuration)]

\* The chat-completion call of run (p, i) answers with `content`
LLMReply(p, i, content) ==
    /\ Running
    /\ runs[p][i].state = "awaitLLM"
    /\ LET done == Scheduled(runs[p][i], "replied", Trim(content))
       IN  IF variant = "part_000"
           THEN /\ runs' = [runs EXCEPT ![p][i] = done]
                /\ UNCHANGED <<conversations, posts, clock>>
           ELSE \E d \in Reads(clock, horizon) :
                LET r == ForOfEntries(conversations, [runs[p] EXCEPT ![i] = done],
                                      configuration,
                                      SameReads(d, Len(posts[p].body.entry)),
                                      p, posts[p].body.entry, i + 1)
                IN  /\ runs' = [runs EXCEPT ![p] = r.runs]
                    /\ conversations' = r.conversations
                    /\ posts' = [posts EXCEPT ![p] = AfterLoop(@, r)]
                    /\ clock' = ClockAfter(r.conversations, clock)
    /\ lastResponse' = NoResponse
    /\ UNCHANGED <<variant, horizon, process, testing, configuration>>

\* The chat-completion call of run (p, i) fails (network error, non-2xx status, the
\* 15 s timeout, a response without choices[0].message.content).
\* part_000 102-105 catches and returns the apology; index.js 81-98 rejects, the
\* await in the handler throws and the handler's catch answers 500.
LLMFail(p, i) ==
    /\ Running
    /\ runs[p][i].state = "awaitLLM"
    /\ IF variant = "part_000"
       THEN /\ runs' = [runs EXCEPT ![p][i] = Scheduled(@, "failed", ApologyText)]
            /\ UNCHANGED posts
       ELSE /\ runs' = [runs EXCEPT ![p][i].state = "llmFailed", ![p][i].llmOutcome = "failed"]
            /\ posts' = [posts EXCEPT ![p] = Responded(@, 500)]
    /\ lastResponse' = NoResponse
    /\ UNCHANGED <<variant, horizon, process, testing, conversations, configuration, clock>>

\* The setTimeout callback of run (p, i) starts: sendInstagramMessage posts the reply.
\* With configuration.instagram null the Authorization header cannot be built: the
\* TypeError is thrown inside the try of sendInstagramMessage before any request is
\* made, logged, rethrown and logged by the callback's catch.
TimerFire(p, i) ==
    /\ Running
    /\ runs[p][i].state = "delayed"
    /\ runs' = IF IsNull(configuration.instagram)
               THEN [runs EXCEPT ![p][i].state = "sendFailed",
                                 ![p][i].sends = @ + 1]
               ELSE [runs EXCEPT ![p][i].state = "sending",
                                 ![p][i].sends = @ + 1,
                                 ![p][i].accessToken = configuration.instagram.accessToken]
    /\ lastResponse' = NoResponse
    /\ UNCHANGED <<variant, horizon, process, testing, conversations, configuration, posts, clock>>

\* A variant of DeliveryOk that records the reply twice (once more after the log line)
DeliveryOkTwice(p, i) ==
    /\ Running
    /\ runs[p][i].state = "sending"
    /\ \E d \in Reads(clock, horizon) :
       LET once == addMessageToConversation(conversations, runs[p][i].senderId,
                                            runs[p][i].finalResponse, "bot",
                                            MsgId(p, i, "bot"), d)
           twice == addMessageToConversation(once.conversations, runs[p][i].senderId,
                                             runs[p][i].finalResponse, "bot",
                                             MsgId(p, i, "bot"), d)
       IN  /\ conversations' = twice.conversations
           /\ clock' = ClockAfter(twice.conversations, clock)
    /\ runs' = [runs EXCEPT ![p][i].state = "delivered"]
    /\ lastResponse' = NoResponse
    /\ UNCHANGED <<variant, horizon, process, testing, configuration, posts>>

\* The messaging API answers 2xx: the bot message is recorded, with the instants
\* the call reads from the clock
DeliveryOk(p, i) ==
    /\ Running
    /\ runs[p][i].state = "sending"
    /\ \E d \in Reads(clock, horizon) :
       LET added == addMessageToConversation(conversations, runs[p][i].senderId,
                                             runs[p][i].finalResponse, "bot",
                                             MsgId(p, i, "bot"), d)
       IN  /\ conversations' = added.conversations
           /\ clock' = ClockAfter(added.conversations, clock)
    /\ runs' = [runs EXCEPT ![p][i].state = "delivered"]
    /\ lastResponse' = NoResponse
    /\ UNCHANGED <<variant, horizon, process, testing, configuration, posts>>

\* A variant of DeliveryFail with a retry: the failed run waits for another timer
DeliveryFailRetries(p, i) ==
    /\ Running
    /\ runs[p][i].state = "sending"
    /\ runs' = [runs EXCEPT ![p][i].state = "delayed"]
    /\ lastResponse' = NoResponse
    /\ UNCHANGED <<variant, horizon, process, testing, conversations, configuration, posts, clock>>

\* The messaging API fails: sendInstagramMessage rethrows, the callback's catch logs
DeliveryFail(p, i) ==
    /\ Running
    /\ runs[p][i].state = "sending"
    /\ runs' = [runs EXCEPT ![p][i].state = "sendFailed"]
    /\ lastResponse' = NoResponse
    /\ UNCHANGED <<variant, horizon, process, testing, conversations, configuration, posts, clock>>

\* Time passes
Tick ==
    /\ clock < MaxClock
    /\ clock' = clock + 1
    /\ lastResponse' = NoResponse
    /\ UNCHANGED <<variant, horizon, process, testing, conversations, configuration, posts, runs>>

\* A variant of InsertByActivity with the comparator's operands swapped
\* ((a, b) => a.lastActivity - b.lastActivity): earliest activity first
RECURSIVE InsertOldestFirst(_, _)
InsertOldestFirst(sorted, c) ==
    IF sorted = <<>> THEN <<c>>
    ELSE IF Head(sorted).lastActivity <= c.lastActivity
    THEN <<Head(sorted)>> \o InsertOldestFirst(Tail(sorted), c)
    ELSE <<c>> \o sorted

\* Array.prototype.sort with (a, b) => b.lastActivity - a.lastActivity: stable, in
\* place, latest activity first
RECURSIVE InsertByActivity(_, _)
InsertByActivity(sorted, c) ==
    IF sorted = <<>> THEN <<c>>
    ELSE IF Head(sorted).lastActivity >= c.lastActivity
    THEN <<Head(sorted)>> \o InsertByActivity(Tail(sorted), c)
    ELSE <<c>> \o sorted

RECURSIVE SortByActivity(_)
SortByActivity(convs) ==
    IF convs = <<>> THEN <<>>
    ELSE InsertByActivity(SortByActivity(SubSeq(convs, 1, Len(convs) - 1)),
                          convs[Len(convs)])

\* GET /api/conversations: sorts the store itself and sends it
ListConversations ==
    /\ Running
    /\ conversations' = SortByActivity(conversations)
    /\ lastResponse' = [route |-> "GET /api/conversations", status |-> 200,
                        sent |-> conversations']
    /\ UNCHANGED <<variant, horizon, process, testing, configuration, posts, runs, clock>>

\* A variant of ShallowMerge that merges one level deeper: a section of cfg keeps
\* the fields the submitted section does not name
MergeSections(cfg, body) ==
    [k \in DOMAIN cfg \cup DOMAIN body |->
        IF k \in DOMAIN body /\ k \in DOMAIN cfg
        THEN [f \in DOMAIN cfg[k] \cup DOMAIN body[k] |->
                 IF f \in DOMAIN body[k] THEN body[k][f] ELSE cfg[k][f]]
        ELSE IF k \in DOMAIN body THEN body[k] ELSE cfg[k]]

\* { ...configuration, ...req.body }: the top-level keys of body replace those of cfg
ShallowMerge(cfg, body) ==
    [k \in DOMAIN cfg \cup DOMAIN body |-> IF k \in DOMAIN body THEN body[k] ELSE cfg[k]]

\* POST /api/config
UpdateConfig(body) ==
    /\ Running
    /\ configuration' = ShallowMerge(configuration, body)
    /\ lastResponse' = [route |-> "POST /api/config", status |-> 200,
                        sent |-> [success |-> TRUE,
                                  message |-> "Configuration saved successfully"]]
    /\ UNCHANGED <<variant, horizon, process, testing, conversations, posts, runs, clock>>

\* JavaScript `undefined` for a query parameter that is not in the URL
NoParam == "<undefined>"

\* if (mode && token): undefined and the empty string are falsy
TruthyParam(v) == v \notin {NoParam, ""}

\* What Express sends when a synchronous handler throws: its default error handler
\* answers 500 with a page that names the error
ErrorPage == [status |-> 500, body |-> "TypeError"]

\* GET /webhook (index.js 162-178, part_000 166-181).  res.sendStatus(n) sends the
\* status text as the body; res.send(undefined) sends an empty body.  The handler has
\* no try: `mode === "subscribe" && token === configuration.instagram.verifyToken`
\* reads the section only when the mode is "subscribe", and throws when it is null.
WebhookChallenge(cfg, query) ==
    IF TruthyParam(query.mode) /\ TruthyParam(query.token)
    THEN IF query.mode # "subscribe" THEN [status |-> 403, body |-> "Forbidden"]
         ELSE IF IsNull(cfg.instagram) THEN ErrorPage
         ELSE IF query.token = cfg.instagram.verifyToken
         THEN [status |-> 200,
               body |-> IF query.challenge = NoParam THEN "" ELSE query.challenge]
         ELSE [status |-> 403, body |-> "Forbidden"]
    ELSE [status |-> 400, body |-> "Bad Request"]

GetWebhook(query) ==
    /\ Running
    /\ LET r == WebhookChallenge(configuration, query)
       IN  lastResponse' = [route |-> "GET /webhook", status |-> r.status, sent |-> r.body]
    /\ UNCHANGED <<variant, horizon, process, testing, conversations, configuration, posts, runs, clock>>

\* The query strings of GET /webhook: hub.mode, hub.verify_token, hub.challenge.
\* A subscription with either verify token, with and without a challenge, and the
\* same request with the mode or the token wrong, empty or left out.
Query(mode, token, challenge) == [mode |-> mode, token |-> token, challenge |-> challenge]
Queries ==
    {Query("subscribe", token, "1158201444") :
        token \in {"myverifytoken", "verify1", "", NoParam}}
    \cup {Query(mode, "myverifytoken", "1158201444") :
              mode \in {"unsubscribe", "", NoParam}}
    \cup {Query("subscribe", "myverifytoken", NoParam), Query(NoParam, NoParam, NoParam)}

\* "connected" when the configured value is a non-empty string
Connected(v) == IF v = "" THEN "disconnected" ELSE "connected"

\* GET /api/status; the handler has no try either
GetStatus ==
    /\ Running
    /\ lastResponse' =
           IF IsNull(configuration.instagram)
           THEN [route |-> "GET /api/status", status |-> ErrorPage.status,
                 sent |-> ErrorPage.body]
           ELSE [route |-> "GET /api/status", status |-> 200,
                 sent |-> [webhook |-> "connected",
                           instagram |-> Connected(configuration.instagram.accessToken),
                           gpt |-> Connected(configuration.gpt.apiKey),
                           booking |-> Connected(configuration.booking.calendlyUrl)]]
    /\ UNCHANGED <<variant, horizon, process, testing, conversations, configuration, posts, runs, clock>>

\* GET /health
Health ==
    /\ Running
    /\ lastResponse' = [route |-> "GET /health", status |-> 200,
                        sent |-> [status |-> "healthy", timestamp |-> clock]]
    /\ UNCHANGED <<variant, horizon, process, testing, conversations, configuration, posts, runs, clock>>

\* POST /api/test/:service.  The handler probes the service named in the URL with
\* the credentials of the request body, never with `configuration`; it reads and
\* writes neither the store nor the configuration.
TestServices == {"instagram", "gpt", "booking", "other"}

\* the cases of the handler's switch: index.js 283, 350, 411; part_000 285 only
KnownServices(v) ==
    IF v = "index" THEN {"instagram", "gpt", "booking"} ELSE {"instagram"}

\* The request arrives.  An unknown service is answered 400 at once; a body without
\* the fields the probe needs (`complete` is FALSE) is answered with success: false
\* at once; otherwise the handler sends its probe (axios.get, .post or .head) and
\* awaits the answer, and other handlers run in the meantime.
TestServiceRequest(service, complete) ==
    /\ Running
    /\ IF service \notin KnownServices(variant)
       THEN /\ lastResponse' = [route |-> "POST /api/test", status |-> 400,
                               sent |-> [success |-> FALSE, message |-> "Unknown service"]]
            /\ UNCHANGED testing
       ELSE IF ~complete
       THEN /\ lastResponse' = [route |-> "POST /api/test", status |-> 200,
                               sent |-> [success |-> FALSE]]
            /\ UNCHANGED testing
       ELSE /\ Len(testing) < MaxTests
            /\ testing' = Append(testing, service)
            /\ lastResponse' = NoResponse
    /\ UNCHANGED <<variant, horizon, process, conversations, configuration, posts, runs, clock>>

\* The probe of the k-th awaited test answers or fails (an error status, a network
\* error, the timeout of 10 or 15 s): the handler answers with the outcome
TestServiceAnswer(k, success) ==
    /\ Running
    /\ k \in 1..Len(testing)
    /\ testing' = SubSeq(testing, 1, k - 1) \o SubSeq(testing, k + 1, Len(testing))
    /\ lastResponse' = [route |-> "POST /api/test", status |-> 200,
                        sent |-> [success |-> success]]
    /\ UNCHANGED <<variant, horizon, process, conversations, configuration, posts, runs, clock>>

\* The objects the dashboard submits
ConfigBodies ==
    {[booking |-> [calendlyUrl |-> "https://cal.example/new", provider |-> "calendly"]]}

\* The objects submitted in SpecConfig: new Instagram credentials; a new LLM section
\* together with a booking section that gives the link only; a key the
\* configuration does not have; null for the Instagram section
DeskConfigBodies ==
    {[instagram |-> [pageId |-> "page", accessToken |-> "token1", verifyToken |-> "verify1"]],
     [gpt |-> [provider |-> "openai", apiKey |-> "key1", endpoint |-> "endpoint1",
               model |-> "model1", prompt |-> "prompt1"],
      booking |-> [calendlyUrl |-> "https://cal.example/new"]],
     [injected |-> [field |-> "x"]],
     [instagram |-> NullSection]}

LLMContents == {<<" ", "book", BOOKING_URL>>}

\* The replies of the LLM in SpecReplies: every text of up to MaxReplyLen tokens, the
\* placeholder among them
ReplyTokens == {"book", BOOKING_URL}
ReplyContents == SeqsUpTo(ReplyTokens, MaxReplyLen)

\* index.js never reads the header: its requests are sent without one
PlainRequests == {[canonical |-> TRUE, header |-> AbsentHeader]}

Pipeline ==
    \/ /\ variant = "part_000"
       /\ \E p \in Arriving, body \in Bodies[Room] : \E req \in Requests(body) :
             PostWebhookSigned(p, body, req.canonical, req.header)
    \/ /\ variant = "index"
       /\ \E p \in Arriving, body \in Bodies[Room] : \E req \in PlainRequests :
             PostWebhookPlain(p, body, req.canonical, req.header)
    \/ \E p \in PostIds, i \in EntryIds, content \in LLMContents : LLMReply(p, i, content)
    \/ \E p \in PostIds, i \in EntryIds : LLMFail(p, i)
    \/ \E p \in PostIds, i \in EntryIds : TimerFire(p, i)
    \/ \E p \in PostIds, i \in EntryIds : DeliveryOk(p, i)
    \/ \E p \in PostIds, i \in EntryIds : DeliveryFail(p, i)

Next == Pipeline

Spec == Init /\ [][Next]_vars
SpecWide == InitWide /\ [][Next]_vars

\* The pipeline with the clock running and the dashboard's requests between its steps
Admin ==
    \/ ListConversations
    \/ \E body \in ConfigBodies : UpdateConfig(body)

NextAdmin == Pipeline \/ Tick \/ Admin
SpecAdmin == InitAdmin /\ [][NextAdmin]_vars

\* The pipeline with the LLM answering any of ReplyContents
InitReplies == InitFor(ReplyPosts, ReplyEvents, 0)
NextReplies ==
    \/ Pipeline
    \/ \E p \in PostIds, i \in EntryIds, content \in ReplyContents : LLMReply(p, i, content)
SpecReplies == InitReplies /\ [][NextReplies]_vars

\* Genuine traffic: payloads of complete events, signed by the platform
GenuineBodies ==
    [n \in 0..Max(Max(RunEvents, StampEvents), Max(DeskEvents, ConfigEvents)) |->
        [object : {"instagram"},
         entry : SeqsUpTo({ValidEntry(u) : u \in Users}, n) \ {<<>>}]]

Traffic ==
    \/ /\ variant = "part_000"
       /\ \E p \in Arriving, body \in GenuineBodies[Room] :
             PostWebhookSigned(p, body, TRUE, SignatureFor(WEBHOOK_SECRET, RawBody(body, TRUE)))
    \/ /\ variant = "index"
       /\ \E p \in Arriving, body \in GenuineBodies[Room] :
             PostWebhookPlain(p, body, TRUE, AbsentHeader)
    \/ \E p \in PostIds, i \in EntryIds, content \in LLMContents : LLMReply(p, i, content)
    \/ \E p \in PostIds, i \in EntryIds : LLMFail(p, i)
    \/ \E p \in PostIds, i \in EntryIds : TimerFire(p, i)
    \/ \E p \in PostIds, i \in EntryIds : DeliveryOk(p, i)
    \/ \E p \in PostIds, i \in EntryIds : DeliveryFail(p, i)

\* Genuine traffic alone: every interleaving of its pipeline runs
InitRuns == InitFor(RunPosts, RunEvents, 0)
SpecRuns == InitRuns /\ [][Traffic]_vars

\* Genuine traffic under the scheduling the code provides.  A timer set with
\* setTimeout fires; the chat-completion call is made with timeout: 15000, so it
\* answers or fails; sendInstagramMessage posts without a timeout (index.js 107-119,
\* part_000 114-127), so nothing in the code ends a delivery the messaging API leaves
\* unanswered: the delivery steps get no fairness.
FairTimers ==
    \A p \in 1..RunPosts, i \in 1..RunEvents : WF_vars(TimerFire(p, i))
FairLLM ==
    \A p \in 1..RunPosts, i \in 1..RunEvents :
        WF_vars(LLMFail(p, i) \/ \E content \in LLMContents : LLMReply(p, i, content))
SpecFair == InitRuns /\ [][Traffic]_vars /\ FairTimers /\ FairLLM

\* Time passes
DeskTick ==
    /\ clock < DeskClock
    /\ clock' = clock + 1
    /\ lastResponse' = NoResponse
    /\ UNCHANGED <<variant, horizon, process, testing, conversations, configuration, posts, runs>>

InitDesk == InitFor(DeskPosts, DeskEvents, DeskClock)
InitConfig == InitFor(ConfigPosts, ConfigEvents, 0)

\* Genuine traffic with configuration updates, webhook verifications and status
\* requests between its steps
NextConfig ==
    \/ Traffic
    \/ \E body \in DeskConfigBodies : UpdateConfig(body)
    \/ \E query \in Queries : GetWebhook(query)
    \/ GetStatus
SpecConfig == InitConfig /\ [][NextConfig]_vars

\* Genuine traffic with the clock running and listings between its steps
NextListing == Traffic \/ DeskTick \/ ListConversations
SpecListing == InitDesk /\ [][NextListing]_vars

\* Time passes, up to the horizon of the behaviour
StampTick ==
    /\ clock < horizon
    /\ clock' = clock + 1
    /\ lastResponse' = NoResponse
    /\ UNCHANGED <<variant, horizon, process, testing, conversations, configuration, posts, runs>>

\* Genuine traffic with the clock running, between its steps and within the calls
\* of addMessageToConversation
InitStamps == InitFor(StampPosts, StampEvents, StampClock)
NextStamps == Traffic \/ StampTick
SpecStamps == InitStamps /\ [][NextStamps]_vars

\* Genuine traffic with the clock running and every other route between its steps
Desk ==
    \/ ListConversations
    \/ \E body \in ConfigBodies : UpdateConfig(body)
    \/ \E query \in Queries : GetWebhook(query)
    \/ GetStatus
    \/ Health
    \/ \E service \in TestServices, complete \in BOOLEAN :
          TestServiceRequest(service, complete)
    \/ \E k \in 1..MaxTests, success \in BOOLEAN : TestServiceAnswer(k, success)

NextDesk == Traffic \/ DeskTick \/ Desk
SpecDesk == InitDesk /\ [][NextDesk]_vars

----------------------------------------------------------------------------
(* Vocabulary of the properties *)

\* where in the store the message written by run (p, i) for `sender` stands
Positions(p, i, sender) ==
    UNION {{<<k, j>> : j \in {h \in 1..Len(conversations[k].messages) :
                                 conversations[k].messages[h].id = MsgId(p, i, sender)}} :
           k \in 1..Len(conversations)}

\* run (p, i) has been started: its user message was recorded and its LLM call made
Started(p, i) == runs[p][i].state \notin {"none", "skipped", "threw", "rejected"}

\* run (p, i) is waiting for its LLM call, its timer or its delivery
InFlight(p, i) == runs[p][i].state \in {"awaitLLM", "delayed", "sending"}

\* nothing is to come any more: no handler is waiting to go on and no run is
\* waiting, or the process has ended and took its handlers and runs with it
Quiescent ==
    \/ process = "exited"
    \/ /\ \A p \in PostIds : posts[p].phase # "pending"
       /\ \A p \in PostIds, i \in EntryIds : ~InFlight(p, i)

\* entry i of request p exists and carries a sender id and a message text
HasEntry(p, i) == posts[p].phase # "absent" /\ i <= Len(posts[p].body.entry)
Complete(p, i) ==
    /\ HasEntry(p, i)
    /\ posts[p].body.entry[i].sender \in Users
    /\ Truthy(posts[p].body.entry[i])

\* request p got past the handler's checks: its entries are to be processed
Accepted(p) ==
    /\ posts[p].phase # "absent"
    /\ posts[p].body.object = "instagram"
    /\ variant = "part_000" => posts[p].verified

\* the conversation of user u as a sequence of messages, empty when there is none
MessagesOf(u) ==
    LET k == FindConversation(conversations, u)
    IN  IF k = 0 THEN <<>> ELSE conversations[k].messages

CountSender(msgs, sender) == Cardinality({j \in 1..Len(msgs) : msgs[j].sender = sender})

\* the signature a genuine sender attaches to the bytes of request p
GenuineSignature(p) ==
    SignatureFor(WEBHOOK_SECRET, RawBody(posts[p].body, posts[p].canonical))

----------------------------------------------------------------------------
(* C1 .. C3: signature verification *)

\* C1 (as claimed): in every handler variant, a user message is recorded, an LLM call
\* made or a delivery scheduled for a webhook POST only after verifyWebhookSignature
\* was invoked on that payload and returned true.
C1_VerifiedBeforeProcessing ==
    \A p \in PostIds, i \in EntryIds :
        (Started(p, i) \/ Positions(p, i, "user") # {}) => posts[p].verified

\* C2 (as claimed): in the signature-enforcing handler, a request whose header is
\* absent or differs from the genuine signature of its payload is answered 403 and
\* leaves the store untouched.
C2_BadSignatureIs403 ==
    \A p \in PostIds :
        (/\ variant = "part_000"
         /\ posts[p].phase = "responded"
         /\ posts[p].header # GenuineSignature(p))
        => /\ posts[p].status = 403
           /\ \A i \in EntryIds :
                 Positions(p, i, "user") = {} /\ Positions(p, i, "bot") = {}

\* C3 (as claimed): verifyWebhookSignature never throws; it returns true exactly when
\* the header equals the expected "sha256=<hex>" value and false otherwise.
C3_VerifyNeverThrows ==
    \A p \in PostIds :
        posts[p].phase # "absent"
        => LET payload == JSON_stringify(posts[p].body)
               r == verifyWebhookSignature(payload, posts[p].header)
           IN  /\ ~r.threw
               /\ r.value <=> (posts[p].header = SignatureFor(WEBHOOK_SECRET, payload))

----------------------------------------------------------------------------
(* C4: one conversation per user *)

\* C4: in every reachable state the store holds at most one Conversation per userId.
C4_OneConversationPerUser ==
    \A j, k \in 1..Len(conversations) :
        conversations[j].userId = conversations[k].userId => j = k

\* Two requests of the same sender have both been recorded while the run of the
\* first is still waiting: the second append found the conversation of the first.
C4_Witness ==
    \E k \in 1..Len(conversations) :
        /\ \E i, h \in EntryIds :
              /\ Positions(1, i, "user") # {} /\ Positions(2, h, "user") # {}
              /\ runs[1][i].senderId = conversations[k].userId
              /\ runs[2][h].senderId = conversations[k].userId
              /\ InFlight(1, i)
        /\ Len(conversations[k].messages) >= 2

----------------------------------------------------------------------------
(* C5 .. C9: the pipeline under failures *)

\* C5 (as claimed): once every run has finished, the Conversation of a user holds
\* exactly one user message per message event of that user and exactly one bot
\* message per reply the LLM Client returned, whether the delivery succeeded or not.
C5_OnePerEventAndReply ==
    Quiescent =>
        \A u \in Users :
            LET events == {<<p, i>> \in PostIds \X EntryIds :
                              /\ Accepted(p) /\ Complete(p, i)
                              /\ posts[p].body.entry[i].sender = u}
                replies == {e \in events :
                               runs[e[1]][e[2]].state \in {"delivered", "sendFailed"}}
            IN  /\ CountSender(MessagesOf(u), "user") = Cardinality(events)
                /\ CountSender(MessagesOf(u), "bot") = Cardinality(replies)

\* arrival order of the events: by request, then by place in the payload
ArrivedBefore(a, b) == a[1] < b[1] \/ (a[1] = b[1] /\ a[2] < b[2])

\* C6 (as claimed): the user messages of one Conversation stand in the order in
\* which their events arrived.
C6_UserMessagesInArrivalOrder ==
    \A k \in 1..Len(conversations) :
        LET msgs == conversations[k].messages
        IN  \A a, b \in 1..Len(msgs) :
                (a < b /\ msgs[a].sender = "user" /\ msgs[b].sender = "user")
                => ArrivedBefore(msgs[a].id, msgs[b].id)

\* processing of entry j of request p failed at some step
EntryFailed(p, j) ==
    /\ HasEntry(p, j)
    /\ \/ ~Complete(p, j)
       \/ runs[p][j].llmOutcome = "failed"
       \/ runs[p][j].state \in {"threw", "rejected", "sendFailed"}

\* C7 (as claimed): when the processing of one entry fails, every other entry of the
\* same payload that carries a sender id and a text is still recorded as a user
\* message and gets its own LLM call and its own delivery attempt.
C7_EntriesIndependent ==
    Quiescent =>
        \A p \in PostIds, i, j \in EntryIds :
            (Accepted(p) /\ i # j /\ Complete(p, i) /\ EntryFailed(p, j))
            => /\ Positions(p, i, "user") # {}
               /\ Started(p, i)
               /\ runs[p][i].state # "llmFailed" => runs[p][i].sends = 1

\* C8 (as claimed): a failed LLM call never makes POST /webhook answer anything but
\* 200, never ends its run as a rejected promise, and leaves the run delivering the
\* apology text or nothing.
C8_LLMFailureContained ==
    \A p \in PostIds, i \in EntryIds :
        runs[p][i].llmOutcome = "failed"
        => /\ posts[p].phase = "responded" => posts[p].status = 200
           /\ runs[p][i].state \notin {"threw", "rejected"}
           /\ runs[p][i].sends > 0 => runs[p][i].finalResponse = ApologyText

\* C9 (as claimed): an event without sender.id or without message.text is a no-op:
\* nothing is recorded, no LLM call and no delivery are made, nothing is thrown (the
\* process goes on), and a request made of such events only is answered 200.
C9_IncompleteEventIsNoOp ==
    \A p \in PostIds :
        Accepted(p)
        => /\ Running
           /\ \A i \in EntryIds :
                 (HasEntry(p, i) /\ ~Complete(p, i))
                 => /\ runs[p][i].state \in {"none", "skipped"}
                    /\ Positions(p, i, "user") = {} /\ Positions(p, i, "bot") = {}
                    /\ runs[p][i].sends = 0
           /\ (/\ posts[p].phase = "responded"
               /\ \A i \in EntryIds : HasEntry(p, i) => ~Complete(p, i))
              => posts[p].status = 200

----------------------------------------------------------------------------
(* C10: the bot message and the outcome of the delivery *)

\* the store holds exactly one bot message of run (p, i): its final reply, in the
\* conversation of its sender
RecordedOnce(p, i) ==
    /\ Cardinality(Positions(p, i, "bot")) = 1
    /\ \A pos \in Positions(p, i, "bot") :
          /\ conversations[pos[1]].userId = runs[p][i].senderId
          /\ conversations[pos[1]].messages[pos[2]].text = runs[p][i].finalResponse
          /\ conversations[pos[1]].messages[pos[2]].sender = "bot"

\* C10 (as claimed): once the Messaging Client has answered for a run, the final
\* reply stands in the sender's Conversation as exactly one bot message, whether the
\* delivery succeeded or failed.
C10_RecordedWhateverTheDelivery ==
    \A p \in PostIds, i \in EntryIds :
        runs[p][i].state \in {"delivered", "sendFailed"} => RecordedOnce(p, i)

----------------------------------------------------------------------------
(* C11: placeholder substitution *)

\* `text` with every occurrence of `token` replaced
RECURSIVE ReplaceAll(_, _, _)
ReplaceAll(text, token, by) ==
    IF text = <<>> THEN <<>>
    ELSE (IF Head(text) = token THEN <<by>> ELSE <<Head(text)>>)
         \o ReplaceAll(Tail(text), token, by)

\* run (p, i) has handed a text to the Messaging Client
Handed(p, i) == runs[p][i].sends > 0

\* C11 (as claimed): the text handed to the Messaging Client for an LLM reply is the
\* reply with every occurrence of {BOOKING_URL} replaced by the configured booking
\* URL, so it no longer holds the token; a reply without the token is handed over
\* unchanged.
C11_EveryPlaceholderReplaced ==
    \A p \in PostIds, i \in EntryIds :
        (Handed(p, i) /\ runs[p][i].llmOutcome = "replied")
        => /\ runs[p][i].finalResponse =
                 ReplaceAll(runs[p][i].llmResponse, BOOKING_URL,
                            configuration.booking.calendlyUrl)
           /\ ~Includes(runs[p][i].finalResponse, BOOKING_URL)
           /\ ~Includes(runs[p][i].llmResponse, BOOKING_URL)
                 => runs[p][i].finalResponse = runs[p][i].llmResponse

----------------------------------------------------------------------------
(* C12: GET /webhook *)

\* the body that is exactly hub.challenge: empty when the request carries none
ChallengeBody(query) == IF query.challenge = NoParam THEN "" ELSE query.challenge

\* What C12 says of the response to `query` in a step, `present` telling which
\* values of hub.mode and hub.verify_token count as present: 200 with the challenge
\* exactly when both are present, the mode is "subscribe" and the token is the
\* configured one; 403 when both are present and one of them is wrong; 400 when
\* one is absent; the store and the configuration stay as they are.
VerificationAnswered(query, present(_)) ==
    LET both == present(query.mode) /\ present(query.token)
        match == /\ query.mode = "subscribe"
                 /\ ~IsNull(configuration.instagram)
                 /\ query.token = configuration.instagram.verifyToken
    IN  /\ (lastResponse'.status = 200 /\ lastResponse'.sent = ChallengeBody(query))
              <=> (both /\ match)
        /\ (both /\ ~match) => lastResponse'.status = 403
        /\ ~both => lastResponse'.status = 400
        /\ conversations' = conversations
        /\ configuration' = configuration

\* the step is the handling of GET /webhook with `query`
Verifies(query) == lastResponse'.route = "GET /webhook" /\ GetWebhook(query)

\* a parameter is present when the query string names it, whatever its value
InQuery(v) == v # NoParam

\* C12 (as claimed): every GET /webhook is answered 200 with the challenge, 403 or 400
\* as above, a parameter being present when the query string names it.
C12_VerificationByPresence ==
    [][\A query \in Queries : Verifies(query) => VerificationAnswered(query, InQuery)]_vars

\* C12 (read by value): the same, a parameter being present when the query string
\* gives it a non-empty value; an empty hub.mode or hub.verify_token is answered 400.
C12_VerificationByValue ==
    [][\A query \in Queries : Verifies(query) => VerificationAnswered(query, TruthyParam)]_vars

----------------------------------------------------------------------------
(* C13: no cross-contamination between users *)

\* message j of conversation k was appended by the run of an event whose sender.id
\* is the conversation's userId: as the user message of that event, or as the bot
\* message carrying that run's final reply
AppendedByOwnRun(k, j) ==
    LET m == conversations[k].messages[j]
        p == m.id[1]
        i == m.id[2]
    IN  /\ HasEntry(p, i)
        /\ posts[p].body.entry[i].sender = conversations[k].userId
        /\ runs[p][i].senderId = conversations[k].userId
        /\ m.sender = m.id[3]
        /\ m.sender = "user" => m.text = posts[p].body.entry[i].text
        /\ m.sender = "bot" => m.text = runs[p][i].finalResponse

\* C13: every message stored in the Conversation of user u was appended by a pipeline
\* run whose event has sender.id = u, under every interleaving of the runs.
C13_NoCrossContamination ==
    \A k \in 1..Len(conversations) :
        \A j \in 1..Len(conversations[k].messages) : AppendedByOwnRun(k, j)

\* two requests of two users have both been answered: each user's conversation
\* holds its own message and its own reply
C13_Witness ==
    \E k, h \in 1..Len(conversations) :
        /\ k < h
        /\ conversations[k].userId # conversations[h].userId
        /\ \E p, q \in PostIds, i \in EntryIds :
              /\ runs[p][i].state = "delivered" /\ runs[q][i].state = "delivered"
              /\ runs[p][i].senderId = conversations[k].userId
              /\ runs[q][i].senderId = conversations[h].userId
              /\ p < q
        /\ Len(conversations[k].messages) = 2 /\ Len(conversations[h].messages) = 2

----------------------------------------------------------------------------
(* C14: GET /api/conversations *)

\* `list` holds every element of `convs` exactly once and nothing else
ListsEachOnce(list, convs) ==
    /\ Len(list) = Len(convs)
    /\ \A k \in 1..Len(convs) :
          Cardinality({j \in 1..Len(list) : list[j] = convs[k]}) = 1

\* lastActivity does not increase from the first element to the last
LatestFirst(list) ==
    \A a, b \in 1..Len(list) : a < b => list[a].lastActivity >= list[b].lastActivity

\* C14: every GET /api/conversations sends every Conversation of the store exactly
\* once, ordered by lastActivity, latest first, whatever appends and listings came
\* before.
C14_ListedLatestFirst ==
    [][lastResponse'.route = "GET /api/conversations"
       => /\ lastResponse'.status = 200
          /\ ListsEachOnce(lastResponse'.sent, conversations)
          /\ LatestFirst(lastResponse'.sent)]_vars

\* a listing sent [B, A]: B, created after A, had the later activity
C14_Witness ==
    /\ lastResponse.route = "GET /api/conversations"
    /\ Len(lastResponse.sent) = 2
    /\ lastResponse.sent[1].lastActivity > lastResponse.sent[2].lastActivity
    /\ lastResponse.sent[1].createdAt >= lastResponse.sent[2].createdAt
    /\ lastResponse.sent[1].id > lastResponse.sent[2].id

----------------------------------------------------------------------------
(* C15: POST /api/config *)

\* the step is the handling of POST /api/config with `body`
Submits(body) == lastResponse'.route = "POST /api/config" /\ UpdateConfig(body)

\* C15: POST /api/config is a shallow merge: afterwards every top-level key of the
\* submitted object holds exactly the submitted value, every other top-level key
\* keeps its value, and the store is unchanged.
C15_ShallowMergeOnly ==
    [][\A body \in DeskConfigBodies :
          Submits(body)
          => /\ DOMAIN configuration' = DOMAIN configuration \cup DOMAIN body
             /\ \A k \in DOMAIN body : configuration'[k] = body[k]
             /\ \A k \in DOMAIN configuration \ DOMAIN body :
                   configuration'[k] = configuration[k]
             /\ conversations' = conversations]_vars

\* an update was answered while the store held a conversation: the booking section
\* is the submitted one, without the provider it had before, the injected key is
\* there, the Instagram section is as it was
C15_Witness ==
    /\ lastResponse.route = "POST /api/config"
    /\ configuration.booking = [calendlyUrl |-> "https://cal.example/new"]
    /\ "injected" \in DOMAIN configuration
    /\ configuration.instagram = InitialConfiguration.instagram
    /\ conversations # <<>>

----------------------------------------------------------------------------
(* C16: configuration updates while a run is in flight *)

\* C16 (as claimed): everything a run uses of the configuration is as the
\* configuration was when the run started: endpoint, model, key and prompt of its LLM
\* request, the booking URL put into its reply, the access token of its delivery.
C16_RunUsesStartConfiguration ==
    \A p \in PostIds, i \in EntryIds :
        Started(p, i)
        => LET run == runs[p][i]
               cfg == run.startedWith
           IN  /\ run.llmRequest.endpoint = cfg.gpt.endpoint
               /\ run.llmRequest.model = cfg.gpt.model
               /\ run.llmRequest.apiKey = cfg.gpt.apiKey
               /\ run.llmRequest.messages[1].content = <<cfg.gpt.prompt>>
               /\ run.llmOutcome = "replied"
                     => run.finalResponse = Substitute(variant, run.llmResponse, cfg)
               /\ run.sends > 0
                     => run.accessToken = (IF IsNull(cfg.instagram) THEN ""
                                           ELSE cfg.instagram.accessToken)

----------------------------------------------------------------------------
(* C17: the delay blocks nothing *)

\* the next step of run (q, h), whatever it stands at, can be taken now
CanGoOn(q, h) ==
    /\ runs[q][h].state = "awaitLLM"
          => ENABLED (\E content \in LLMContents : LLMReply(q, h, content))
    /\ runs[q][h].state = "delayed" => ENABLED TimerFire(q, h)
    /\ runs[q][h].state = "sending" => ENABLED DeliveryOk(q, h)

\* a request the model has room for can be received now
CanReceive ==
    \A q \in Arriving :
        \A body \in GenuineBodies[Room] :
            IF variant = "part_000"
            THEN ENABLED PostWebhookSigned(q, body, TRUE,
                                           SignatureFor(WEBHOOK_SECRET, RawBody(body, TRUE)))
            ELSE ENABLED PostWebhookPlain(q, body, TRUE, AbsentHeader)

\* C17 (as claimed): while a run is waiting in its delay, the POST /webhook that
\* started it is answered, every other run can take its next step (LLM completion,
\* timer, delivery) and further requests can be received and recorded.
C17_DelayBlocksNothing ==
    \A p \in PostIds, i \in EntryIds :
        runs[p][i].state = "delayed"
        => /\ posts[p].phase = "responded"
           /\ \A q \in PostIds, h \in EntryIds : <<q, h>> # <<p, i>> => CanGoOn(q, h)
           /\ CanReceive

----------------------------------------------------------------------------
(* C18: the history handed to the LLM Client *)

\* the role the LLM Client gives to a stored message
RoleOf(sender) == IF sender = "user" THEN "user" ELSE "assistant"

\* the chat messages of run (p, i) after the system prompt are the messages that
\* stand before its own user message (at place j of conversation k), in stored
\* order and with their roles, and then its own text as the one final user turn
HistoryIsWhatStoodBefore(p, i, k, j) ==
    LET sent == runs[p][i].llmRequest.messages
        msgs == conversations[k].messages
    IN  /\ Len(sent) = j + 1
        /\ sent[1].role = "system"
        /\ \A m \in 1..(j - 1) :
              sent[m + 1] = [role |-> RoleOf(msgs[m].sender), content |-> msgs[m].text]
        /\ sent[j + 1] = [role |-> "user", content |-> posts[p].body.entry[i].text]

\* C18: the history passed to the LLM Client for an event is exactly what stood in
\* the sender's Conversation before the event's user message was appended; the
\* event's own text is the final user turn only, also when further messages of the
\* same user are appended while the call is pending.
C18_HistoryExcludesCurrent ==
    \A p \in PostIds, i \in EntryIds :
        Started(p, i)
        => /\ Cardinality(Positions(p, i, "user")) = 1
           /\ \A pos \in Positions(p, i, "user") :
                 HistoryIsWhatStoodBefore(p, i, pos[1], pos[2])

\* the LLM calls of two events of one user are pending together: the first was
\* started on an empty conversation that has grown behind it, the second has the
\* first event's message as its history
C18_Witness ==
    \E p, q \in PostIds, i, h \in EntryIds :
        /\ runs[p][i].state = "awaitLLM"
        /\ runs[q][h].state = "awaitLLM"
        /\ runs[p][i].senderId = runs[q][h].senderId
        /\ Len(runs[p][i].llmRequest.messages) = 2
        /\ Len(runs[q][h].llmRequest.messages) = 3
        /\ runs[q][h].llmRequest.messages[2].role = "user"
        /\ Len(MessagesOf(runs[p][i].senderId)) = 2

----------------------------------------------------------------------------
(* C19: a failed delivery *)

\* the step in which the delivery of run (p, i) fails
DeliveryFails(p, i) ==
    /\ runs[p][i].state = "sending"
    /\ runs'[p][i].state = "sendFailed"

\* nothing but the position of run (p, i) changes: the process goes on, no response
\* is sent or altered, no other run moves, nothing is recorded
Contained(p, i) ==
    /\ process' = "running"
    /\ posts' = posts
    /\ lastResponse' = NoResponse
    /\ conversations' = conversations
    /\ configuration' = configuration
    /\ runs' = [runs EXCEPT ![p][i].state = "sendFailed"]

\* C19: a failed delivery stays in the delayed callback: the step changes no HTTP
\* response, no other run and no stored data, every other run can go on as before, and
\* the Messaging Client is invoked at most once for an event.
C19_FailedDeliveryContained ==
    [][ /\ \A p \in PostIds, i \in EntryIds : runs'[p][i].sends <= 1
        /\ \A p \in PostIds, i \in EntryIds :
              DeliveryFails(p, i)
              => /\ Contained(p, i)
                 /\ \A q \in PostIds, h \in EntryIds :
                       <<q, h>> # <<p, i>> => CanGoOn(q, h)
      ]_vars

\* one delivery has failed after its single attempt, the request that carried the
\* event is answered with 200, and the reply of another event is delivered and
\* recorded
C19_Witness ==
    \E p, q \in PostIds, i, h \in EntryIds :
        /\ runs[p][i].state = "sendFailed"
        /\ runs[p][i].sends = 1
        /\ posts[p].phase = "responded"
        /\ posts[p].status = 200
        /\ runs[q][h].state = "delivered"
        /\ Positions(q, h, "bot") # {}

----------------------------------------------------------------------------
(* C20: the store only grows *)

\* s is a prefix of t
IsPrefix(s, t) == Len(s) <= Len(t) /\ SubSeq(t, 1, Len(s)) = s

\* conversation `later` is conversation `earlier` with nothing but appended messages
\* and a new lastActivity
GrownFrom(earlier, later) ==
    /\ later.id = earlier.id
    /\ later.userId = earlier.userId
    /\ later.username = earlier.username
    /\ later.status = earlier.status
    /\ later.createdAt = earlier.createdAt
    /\ IsPrefix(earlier.messages, later.messages)

\* C20: whatever operation takes a step, every conversation of the store is still in
\* the store afterwards (found by its id: the listing reorders the store) with its
\* id, userId, username, status and createdAt unchanged and with its earlier message
\* sequence as a prefix of its later one.
C20_StoreAppendOnly ==
    [][ /\ Len(conversations') >= Len(conversations)
        /\ \A k \in 1..Len(conversations) :
              \E h \in 1..Len(conversations') :
                  GrownFrom(conversations[k], conversations'[h])
      ]_vars

\* a listing has moved the conversation created second to the front of the store,
\* both conversations hold a user message and the reply to it, and the
\* configuration has been updated
C20_Witness ==
    /\ Len(conversations) = 2
    /\ conversations[1].id = 2
    /\ conversations[2].id = 1
    /\ \A k \in 1..2 : Len(conversations[k].messages) = 2
    /\ configuration.booking.calendlyUrl = "https://cal.example/new"

----------------------------------------------------------------------------
(* C21: lastActivity and the timestamps *)

\* C21: every conversation's lastActivity equals the timestamp of its last message,
\* and the timestamps of its messages do not decrease along the sequence.
C21_LastActivityIsLastTimestamp ==
    \A k \in 1..Len(conversations) :
        LET msgs == conversations[k].messages
        IN  /\ msgs # <<>> => conversations[k].lastActivity = msgs[Len(msgs)].timestamp
            /\ \A a, b \in 1..Len(msgs) : a <= b => msgs[a].timestamp <= msgs[b].timestamp

----------------------------------------------------------------------------
(* C22: every run comes to an end *)

\* run (p, i) has come to its outcome: delivered, or failed
Ended(p, i) == runs[p][i].state \in {"delivered", "sendFailed", "llmFailed"}

\* C22: every recorded user message whose LLM call gives a reply leads to exactly
\* one invocation of the Messaging Client, for its sender and with its substituted
\* reply, and no run stays for ever between the recording of its user message and
\* its outcome (delivered, or failed).
C22_EveryRunEnds ==
    \A p \in 1..RunPosts, i \in 1..RunEvents :
        /\ [](runs[p][i].sends <= 1)
        /\ (runs[p][i].llmOutcome = "replied")
              ~> (runs[p][i].sends = 1 /\ runs[p][i].finalResponse # <<>>)
        /\ InFlight(p, i) ~> Ended(p, i)

----------------------------------------------------------------------------
(* C23: the order of the replies to one user *)

\* the message written by run (p, i) for `sender` stands before the one written by
\* run (q, h) in the same conversation
Before(p, i, q, h, sender) ==
    \E a \in Positions(p, i, sender), b \in Positions(q, h, sender) :
        a[1] = b[1] /\ a[2] < b[2]

\* C23: when two events of one user are both answered, their replies are recorded
\* in the order of the user messages they answer.
C23_RepliesInArrivalOrder ==
    \A p, q \in PostIds, i, h \in EntryIds :
        /\ Before(p, i, q, h, "user")
        /\ Positions(p, i, "bot") # {}
        /\ Positions(q, h, "bot") # {}
        => Before(p, i, q, h, "bot")

----------------------------------------------------------------------------
(* C24: replies never outnumber the messages they answer *)

\* how many of the first n messages of msgs were written by `sender`
CountOf(msgs, n, sender) == Cardinality({m \in 1..n : msgs[m].sender = sender})

\* the reply of run (p, i) stands in the conversation of its user message, after it
ReplyAfterMessage(p, i) ==
    /\ Positions(p, i, "user") # {}
    /\ \A a \in Positions(p, i, "user"), b \in Positions(p, i, "bot") :
          a[1] = b[1] /\ a[2] < b[2]

\* C24: in every prefix of every conversation the bot messages are at most as many
\* as the user messages, the first message is a user message, and the reply of a
\* run stands after the user message of that run.
C24_RepliesFollowMessages ==
    /\ \A k \in 1..Len(conversations) :
          LET msgs == conversations[k].messages
          IN  /\ msgs # <<>> => msgs[1].sender = "user"
              /\ \A n \in 1..Len(msgs) : CountOf(msgs, n, "bot") <= CountOf(msgs, n, "user")
    /\ \A p \in PostIds, i \in EntryIds :
          Positions(p, i, "bot") # {} => ReplyAfterMessage(p, i)

\* one conversation holds two user messages and the two replies to them
C24_Witness ==
    \E k \in 1..Len(conversations) :
        /\ Len(conversations[k].messages) = 4
        /\ CountOf(conversations[k].messages, 4, "bot") = 2
        /\ CountOf(conversations[k].messages, 4, "user") = 2

====
